---- MODULE Spec2Model ----
(***************************************************************************)
(* bevy_mesh_decal: the decal clipper (slice, new_triangle, new_quad,      *)
(* apply_decal) and the per-frame orchestration (spray_decal,              *)
(* decal_system, and the example's make_all_decalable / clear_decals).     *)
(*                                                                         *)
(* f32 values are modelled as exact rationals <<n, d>> (d > 0, lowest      *)
(* terms); rounding is not modelled.  Rotations are restricted to the      *)
(* half-turns about the coordinate axes, whose matrices are diagonal, so   *)
(* a rotation is the vector of its diagonal signs.                         *)
(***************************************************************************)
EXTENDS Integers, Sequences, FiniteSets, TLC

(***************************************************************************)
(* Rational arithmetic standing in for f32.                                *)
(***************************************************************************)
Abs(n) == IF n < 0 THEN -n ELSE n

RECURSIVE Gcd(_, _)
Gcd(m, n) == IF n = 0 THEN m ELSE Gcd(n, m % n)

Norm(n, d) ==
    LET g == Gcd(Abs(n), Abs(d))
        s == IF d < 0 THEN -1 ELSE 1
    IN  <<(s * n) \div g, (s * d) \div g>>

R(n) == <<n, 1>>
Q(n, d) == Norm(n, d)
RAdd(p, q) == Norm(p[1] * q[2] + q[1] * p[2], p[2] * q[2])
RSub(p, q) == Norm(p[1] * q[2] - q[1] * p[2], p[2] * q[2])
RMul(p, q) == Norm(p[1] * q[1], p[2] * q[2])
RDiv(p, q) == Norm(p[1] * q[2], p[2] * q[1])
RLt(p, q) == p[1] * q[2] < q[1] * p[2]
RGt(p, q) == RLt(q, p)
RLe(p, q) == ~RLt(q, p)
RGe(p, q) == ~RLt(p, q)
RAbs(p) == <<Abs(p[1]), p[2]>>
RSign(p) == IF p[1] < 0 THEN R(-1) ELSE R(1)

\* glam Vec3 / Vec2 operations used by the crate
V3(x, y, z) == <<x, y, z>>
VAdd(u, v) == [i \in DOMAIN u |-> RAdd(u[i], v[i])]
VSub(u, v) == [i \in DOMAIN u |-> RSub(u[i], v[i])]
VScale(u, s) == [i \in DOMAIN u |-> RMul(u[i], s)]
VMul(u, v) == [i \in DOMAIN u |-> RMul(u[i], v[i])]
VDiv(u, v) == [i \in DOMAIN u |-> RDiv(u[i], v[i])]
VDot(u, v) == RAdd(RAdd(RMul(u[1], v[1]), RMul(u[2], v[2])), RMul(u[3], v[3]))
VLerp(u, v, s) == VAdd(u, VScale(VSub(v, u), s))
VCross(u, v) ==
    <<RSub(RMul(u[2], v[3]), RMul(u[3], v[2])),
      RSub(RMul(u[3], v[1]), RMul(u[1], v[3])),
      RSub(RMul(u[1], v[2]), RMul(u[2], v[1]))>>

Vec3_ZERO == V3(R(0), R(0), R(0))
Vec3_ONE == V3(R(1), R(1), R(1))
Vec2_ZERO == <<R(0), R(0)>>
Vec3_Z == V3(R(0), R(0), R(1))
Vec3_NEG_Z == V3(R(0), R(0), R(-1))
Vec3_X == V3(R(1), R(0), R(0))

(***************************************************************************)
(* Program constants (lib.rs 11-13).                                       *)
(***************************************************************************)
DECAL_REMOVE_BACKFACES == TRUE
DECAL_MAX_PER_ENTTIY == 16
DECAL_EPSILON == Q(16, 100000)
U16_MODULUS == 65536

(***************************************************************************)
(* Vertex, Triangle (lib.rs 70-95).                                        *)
(***************************************************************************)
Vertex(p, n, uv) == [position |-> p, normal |-> n, uv |-> uv]

lerp(self, rhs, d) ==
    [position |-> VLerp(self.position, rhs.position, d),
     normal |-> VLerp(self.normal, rhs.normal, d),
     uv |-> VLerp(self.uv, rhs.uv, d)]

Triangle(a, b, c) == [a |-> a, b |-> b, c |-> c]

is_inside_unit_cube(p) ==
    /\ RLe(RAbs(p[1]), R(1))
    /\ RLe(RAbs(p[2]), R(1))
    /\ RLe(RAbs(p[3]), R(1))

(***************************************************************************)
(* The plane clipper (lib.rs 97-188).  `triangles` is the output vector    *)
(* the Rust code pushes to; each operator returns its new contents.        *)
(***************************************************************************)
\* new_triangle with the second edge parameter taken from the first edge
new_triangle_wrong_edge(a, b, c, fa, fb, fc, triangles) ==
    LET d_ab == RDiv(RSub(R(1), fa), RSub(fb, fa))
        ab == lerp(a, b, d_ab)
        ac == lerp(a, c, d_ab)
    IN  Append(triangles, Triangle(a, ab, ac))

\* new_triangle with the two new vertices pushed in the other order
new_triangle_flipped(a, b, c, fa, fb, fc, triangles) ==
    LET d_ab == RDiv(RSub(R(1), fa), RSub(fb, fa))
        d_ac == RDiv(RSub(R(1), fa), RSub(fc, fa))
        ab == lerp(a, b, d_ab)
        ac == lerp(a, c, d_ac)
    IN  Append(triangles, Triangle(a, ac, ab))

new_triangle(a, b, c, fa, fb, fc, triangles) ==
    LET d_ab == RDiv(RSub(R(1), fa), RSub(fb, fa))
        d_ac == RDiv(RSub(R(1), fa), RSub(fc, fa))
        ab == lerp(a, b, d_ab)
        ac == lerp(a, c, d_ac)
    IN  Append(triangles, Triangle(a, ab, ac))

\* new_quad with the second edge parameter taken from the first edge
new_quad_wrong_edge(a, b, c, fa, fb, fc, triangles) ==
    LET db == RDiv(RSub(R(1), fa), RSub(fb, fa))
        ab == lerp(a, b, db)
        ac == lerp(a, c, db)
    IN  Append(Append(triangles, Triangle(b, c, ac)), Triangle(b, ac, ab))

new_quad(a, b, c, fa, fb, fc, triangles) ==
    LET db == RDiv(RSub(R(1), fa), RSub(fb, fa))
        dc == RDiv(RSub(R(1), fa), RSub(fc, fa))
        ab == lerp(a, b, db)
        ac == lerp(a, c, dc)
    IN  Append(Append(triangles, Triangle(b, c, ac)), Triangle(b, ac, ab))

\* slice returns [ret |-> the bool it returns, triangles |-> the vector after]
slice(triangle, normal, triangles) ==
    LET fa == VDot(triangle.a.position, normal)
        fb == VDot(triangle.b.position, normal)
        fc == VDot(triangle.c.position, normal)
        one == R(1)
        a == triangle.a
        b == triangle.b
        c == triangle.c
    IN  IF RGt(fa, one) /\ RGt(fb, one) /\ RGt(fc, one)
        THEN [ret |-> TRUE, triangles |-> triangles]
        ELSE IF RLt(fa, one) /\ RGt(fb, one) /\ RGt(fc, one)
        THEN [ret |-> TRUE, triangles |-> new_triangle(a, b, c, fa, fb, fc, triangles)]
        ELSE IF RGt(fa, one) /\ RLt(fb, one) /\ RGt(fc, one)
        THEN [ret |-> TRUE, triangles |-> new_triangle(b, c, a, fb, fc, fa, triangles)]
        ELSE IF RGt(fa, one) /\ RGt(fb, one) /\ RLt(fc, one)
        THEN [ret |-> TRUE, triangles |-> new_triangle(c, a, b, fc, fa, fb, triangles)]
        ELSE IF RGt(fa, one) /\ RLt(fb, one) /\ RLt(fc, one)
        THEN [ret |-> TRUE, triangles |-> new_quad(a, b, c, fa, fb, fc, triangles)]
        ELSE IF RLt(fa, one) /\ RGt(fb, one) /\ RLt(fc, one)
        THEN [ret |-> TRUE, triangles |-> new_quad(b, c, a, fb, fc, fa, triangles)]
        ELSE IF RLt(fa, one) /\ RLt(fb, one) /\ RGt(fc, one)
        THEN [ret |-> TRUE, triangles |-> new_quad(c, a, b, fc, fa, fb, triangles)]
        ELSE [ret |-> FALSE, triangles |-> triangles]

(***************************************************************************)
(* Bevy Transform / Mat4 operations used by the crate, for transforms      *)
(* whose rotation is a half-turn about an axis (or the identity): the      *)
(* matrix T*R*S then has the diagonal linear part rotation*scale.          *)
(***************************************************************************)
Transform(t, r, s) == [translation |-> t, rotation |-> r, scale |-> s]

\* Transform::transform_point: scale, rotate, translate
transform_point(tf, p) == VAdd(VMul(tf.rotation, VMul(tf.scale, p)), tf.translation)

\* Transform::mul_transform
mul_transform(self, tf) ==
    [translation |-> transform_point(self, tf.translation),
     rotation |-> VMul(self.rotation, tf.rotation),
     scale |-> VMul(self.scale, tf.scale)]

\* Transform::compute_matrix: [diag, trans] stands for the affine Mat4
compute_matrix(tf) == [diag |-> VMul(tf.rotation, tf.scale), trans |-> tf.translation]

\* Mat4::inverse
inverse(m) ==
    [diag |-> VDiv(Vec3_ONE, m.diag),
     trans |-> VDiv(VScale(m.trans, R(-1)), m.diag)]

\* Mat4::transform_point3
transform_point3(m, p) == VAdd(VMul(m.diag, p), m.trans)

\* Transform::from_matrix (to_scale_rotation_translation): the scale is the
\* length of each column, the rotation what is left of the columns
from_matrix(m) ==
    [translation |-> m.trans,
     rotation |-> [i \in DOMAIN m.diag |-> RSign(m.diag[i])],
     scale |-> [i \in DOMAIN m.diag |-> RAbs(m.diag[i])]]

\* Quat * Vec3
rotate(r, v) == VMul(r, v)

(***************************************************************************)
(* apply_decal (lib.rs 190-342).                                           *)
(***************************************************************************)
axii ==
    <<V3(R(1), R(0), R(0)), V3(R(0), R(1), R(0)), V3(R(0), R(0), R(1)),
      V3(R(-1), R(0), R(0)), V3(R(0), R(-1), R(0)), V3(R(0), R(0), R(-1))>>

\* lib.rs 236-246: the triangle lies wholly beyond one face of the cube
removed(pA, pB, pC) ==
    \E i \in DOMAIN axii :
        /\ RGt(VDot(pA, axii[i]), R(1))
        /\ RGt(VDot(pB, axii[i]), R(1))
        /\ RGt(VDot(pC, axii[i]), R(1))

\* is_backface with `normal.z <= 0.` for `normal.z < 0.`
is_backface_or_edge_on(nA, nB, nC) ==
    LET normal == VAdd(VAdd(nA, nB), nC)
    IN  DECAL_REMOVE_BACKFACES /\ RLe(normal[3], R(0))

\* lib.rs 257-262: the summed normal points away from the projector
is_backface(nA, nB, nC) ==
    LET normal == VAdd(VAdd(nA, nB), nC)
    IN  DECAL_REMOVE_BACKFACES /\ RLt(normal[3], R(0))

\* lib.rs 279-284: pop every input triangle and slice it along one axis
RECURSIVE slice_all(_, _, _)
slice_all(input_triangles, axis, output_triangles) ==
    IF Len(input_triangles) = 0
    THEN output_triangles
    ELSE LET triangle == input_triangles[Len(input_triangles)]
             rest == SubSeq(input_triangles, 1, Len(input_triangles) - 1)
             r == slice(triangle, axis, output_triangles)
         IN  slice_all(rest, axis,
                       IF ~r.ret THEN Append(r.triangles, triangle) ELSE r.triangles)

\* lib.rs 278-290: the six axes in turn, swapping the two vectors after each
\* axis but the last; the result is output_triangles after the last axis
RECURSIVE clip_axes(_, _, _)
clip_axes(i, input_triangles, output_triangles) ==
    LET out == slice_all(input_triangles, axii[i], output_triangles)
    IN  IF i = Len(axii)
        THEN out
        ELSE clip_axes(i + 1, out, <<>>)

Reverse(s) == [i \in 1..Len(s) |-> s[Len(s) + 1 - i]]

\* lib.rs 236-294, the body of the loop over the source triangles: what one
\* source triangle adds to new_triangles.  `step` records the step that
\* decided it: "removed", "backface", "inside" (fast accept) or "sliced".
clip_triangle(pA, pB, pC, nA, nB, nC) ==
    LET A == Vertex(pA, nA, Vec2_ZERO)
        B == Vertex(pB, nB, Vec2_ZERO)
        C == Vertex(pC, nC, Vec2_ZERO)
    IN  IF removed(pA, pB, pC)
        THEN [step |-> "removed", triangles |-> <<>>]
        ELSE IF is_backface(nA, nB, nC)
        THEN [step |-> "backface", triangles |-> <<>>]
        ELSE IF /\ is_inside_unit_cube(A.position)
                /\ is_inside_unit_cube(B.position)
                /\ is_inside_unit_cube(C.position)
        THEN [step |-> "inside", triangles |-> <<Triangle(A, B, C)>>]
        ELSE [step |-> "sliced",
              triangles |-> Reverse(clip_axes(1, <<Triangle(A, B, C)>>, <<>>))]

\* lib.rs 302-317: the u16 index written for the i-th vertex (i from 1).
\* `index += 1` wraps at 65536 when overflow checks are off (release profile)
index_at(i) == (i - 1) % U16_MODULUS

\* lib.rs 312-316: with overflow checks on (debug profile) `index += 1` panics
\* when index is 65535, which is right after the 65536th push
index_overflows(n_triangles) == 3 * n_triangles >= U16_MODULUS

\* lib.rs 298-341: the mesh built from new_triangles
build_mesh(new_triangles, overflow_checks) ==
    LET n == Len(new_triangles)
        vert(i) ==
            LET t == new_triangles[((i - 1) \div 3) + 1]
                k == (i - 1) % 3
            IN  IF k = 0 THEN t.a ELSE IF k = 1 THEN t.b ELSE t.c
        positions == [i \in 1..(3 * n) |-> vert(i).position]
    IN  IF overflow_checks /\ index_overflows(n)
        THEN [kind |-> "Panic"]
        ELSE IF Len(positions) = 0
        THEN [kind |-> "None"]
        ELSE [kind |-> "Some",
              positions |-> positions,
              normals |-> [i \in 1..(3 * n) |-> vert(i).normal],
              uvs |-> [i \in 1..(3 * n) |->
                          <<RAdd(RMul(positions[i][1], Q(1, 2)), Q(1, 2)),
                            RAdd(RMul(positions[i][2], Q(1, 2)), Q(1, 2))>>],
              indices |-> [i \in 1..(3 * n) |-> index_at(i)]]

\* lib.rs 196-210: a missing attribute or index list (unwrap), or another
\* encoding than Float32x3 / Float32x3 / U16 (let-else), panics
mesh_format_ok(mesh) ==
    /\ mesh.position_format = "Float32x3"
    /\ mesh.normal_format = "Float32x3"
    /\ mesh.indices_format = "U16"

\* lib.rs 226-296: the loop over indices.chunks(3), from chunk i on
RECURSIVE clip_chunks(_, _, _, _, _, _, _)
clip_chunks(mesh, mesh_transform, decal_proj, inv_decal_transform, offset, i, new_triangles) ==
    IF 3 * i > Len(mesh.indices)
    THEN new_triangles
    ELSE LET ia == mesh.indices[3 * i - 2] + 1
             ib == mesh.indices[3 * i - 1] + 1
             ic == mesh.indices[3 * i] + 1
             vA == VAdd(mesh.vertex_attribute[ia], VScale(mesh.normal_attribute[ia], offset))
             vB == VAdd(mesh.vertex_attribute[ib], VScale(mesh.normal_attribute[ib], offset))
             vC == VAdd(mesh.vertex_attribute[ic], VScale(mesh.normal_attribute[ic], offset))
             pA == transform_point3(decal_proj, transform_point(mesh_transform, vA))
             pB == transform_point3(decal_proj, transform_point(mesh_transform, vB))
             pC == transform_point3(decal_proj, transform_point(mesh_transform, vC))
             nA == rotate(inv_decal_transform.rotation,
                          rotate(mesh_transform.rotation, mesh.normal_attribute[ia]))
             nB == rotate(inv_decal_transform.rotation,
                          rotate(mesh_transform.rotation, mesh.normal_attribute[ib]))
             nC == rotate(inv_decal_transform.rotation,
                          rotate(mesh_transform.rotation, mesh.normal_attribute[ic]))
         IN  clip_chunks(mesh, mesh_transform, decal_proj, inv_decal_transform, offset, i + 1,
                         new_triangles \o clip_triangle(pA, pB, pC, nA, nB, nC).triangles)

\* apply_decal returns [kind |-> "Panic"], [kind |-> "None"] or
\* [kind |-> "Some", positions, normals, uvs, indices]
apply_decal(mesh, mesh_transform, decal_transform, offset, overflow_checks) ==
    IF ~mesh_format_ok(mesh)
    THEN [kind |-> "Panic"]
    ELSE LET decal_proj == inverse(compute_matrix(decal_transform))
             inv_decal_transform == from_matrix(decal_proj)
             new_triangles ==
                 clip_chunks(mesh, mesh_transform, decal_proj, inv_decal_transform,
                             offset, 1, <<>>)
         IN  build_mesh(new_triangles, overflow_checks)

(***************************************************************************)
(* State.                                                                  *)
(***************************************************************************)
VARIABLES
    scene,          \* model entity -> [mesh, transform]: Handle<Mesh>, Transform
    decalable,      \* model entity -> Decalable.0, for the entities that have it
    applying,       \* entity id -> ApplyingDecal entity (a pending request)
    decals,         \* model entity -> (child id -> Decal entity parented under it)
    commands,       \* system -> the Commands it has queued, applied at the sync point
    schedule,       \* "Update" or "Last": the schedule of the frame that is running
    ran,            \* the systems of that schedule that have run in this frame
    attempts,       \* what the last decal_system pass did, one record per apply_decal call
    crashed,        \* a system panicked: the app is gone
    pc,             \* clipper / mesh-builder runs: "start", then the operation applied
    input,          \* clipper / mesh-builder runs: the operation's arguments
    output          \* clipper / mesh-builder runs: the operation's result

vars ==
    <<scene, decalable, applying, decals, commands, schedule, ran, attempts, crashed,
      pc, input, output>>

world_vars == <<scene, decalable, applying, decals, commands, schedule, ran, attempts, crashed>>
run_vars == <<pc, input, output>>

(***************************************************************************)
(* The scene the orchestration runs on: two model entities, each with a    *)
(* mesh and a transform, and the decal volumes that are sprayed.           *)
(***************************************************************************)
ModelEntities == {"m1", "m2"}

\* a flat square, two triangles, normals +Z, spanning [-1,1]^2 at z = 0
QuadMesh(position_format, normal_format, indices_format) ==
    [position_format |-> position_format,
     normal_format |-> normal_format,
     indices_format |-> indices_format,
     vertex_attribute |->
         <<V3(R(-1), R(-1), R(0)), V3(R(1), R(-1), R(0)),
           V3(R(1), R(1), R(0)), V3(R(-1), R(1), R(0))>>,
     normal_attribute |-> <<Vec3_Z, Vec3_Z, Vec3_Z, Vec3_Z>>,
     indices |-> <<0, 1, 2, 0, 2, 3>>]

\* Assets<Mesh>: the meshes a Handle<Mesh> can point to
MeshAssets ==
    [quad |-> QuadMesh("Float32x3", "Float32x3", "U16"),
     quad_u32 |-> QuadMesh("Float32x3", "Float32x3", "U32"),
     quad_no_normals |-> QuadMesh("Float32x3", "None", "U16")]

MeshHandles == DOMAIN MeshAssets

IDENTITY == Transform(Vec3_ZERO, Vec3_ONE, Vec3_ONE)

\* m1 sits at the origin, m2 beside and below it; both are root entities, so
\* their GlobalTransform equals their Transform
ModelTransform ==
    [m1 |-> IDENTITY,
     m2 |-> Transform(V3(R(2), R(0), Q(-1, 2)), Vec3_ONE, Vec3_ONE)]

\* the scenes: m1 has a well-formed mesh, m2 any of the meshes
Scenes ==
    {[m \in ModelEntities |->
         [mesh |-> IF m = "m1" THEN "quad" ELSE h,
          transform |-> ModelTransform[m],
          global_transform |-> ModelTransform[m]]] : h \in MeshHandles}

\* The decal volumes sprayed (the Transform given to spray_decal):
\*   small covers the middle [-1/2,1/2]^2 of m1's square, which it cuts, and
\*         misses m2
\*   thin  encloses m2's square at every offset; of m1's square it encloses
\*         the one pushed out by one DECAL_EPSILON and is passed by the ones
\*         pushed out by two or more
Volumes ==
    [small |-> Transform(Vec3_ZERO, Vec3_ONE, V3(Q(1, 2), Q(1, 2), R(1))),
     thin |-> Transform(V3(R(2), R(0), RAdd(R(-1), RMul(Q(3, 2), DECAL_EPSILON))),
                        Vec3_ONE, V3(R(4), R(2), R(1)))]

VolumeNames == DOMAIN Volumes

\* lib.rs 357
mesh_transform_of(model) == mul_transform(model.global_transform, model.transform)

\* decal_offset without the + 1
decal_offset_uncounted(count) == RMul(R(count), DECAL_EPSILON)

\* lib.rs 359: the offset passed for a target whose counter is `count`
decal_offset(count) == RMul(R(count + 1), DECAL_EPSILON)

\* What apply_decal returns for every mesh, model transform, volume and
\* counter value of the scenes, under either build profile (computed once)
\* what the orchestration needs of a result of apply_decal
decal_outcome(r) ==
    IF r.kind = "Some"
    THEN [kind |-> "Some", n_triangles |-> Len(r.indices) \div 3]
    ELSE [kind |-> r.kind, n_triangles |-> 0]

ApplyDecalResult ==
    [h \in MeshHandles, m \in ModelEntities, v \in VolumeNames,
     count \in 0..DECAL_MAX_PER_ENTTIY, overflow_checks \in BOOLEAN |->
        decal_outcome(apply_decal(MeshAssets[h],
                                  mesh_transform_of([transform |-> ModelTransform[m],
                                                     global_transform |-> ModelTransform[m]]),
                                  Volumes[v], decal_offset(count), overflow_checks))]

(***************************************************************************)
(* The systems.  A frame runs the Update schedule (decal_system, the       *)
(* example's make_all_decalable, and the systems that call spray_decal,    *)
(* in any order), applies the queued commands, runs the Last schedule      *)
(* (the example's clear_decals) and applies its commands.                  *)
(***************************************************************************)
\* Bound: ApplyingDecal entities alive or queued to be spawned at one time
MaxRequests == 2

\* every ordering of the elements of the finite set S
Orderings(S) ==
    {o \in [1..Cardinality(S) -> S] : \A i, j \in DOMAIN o : i # j => o[i] # o[j]}

\* the elements of the finite set S in some order (the order in which a query
\* whose results are only turned into commands iterates does not matter)
RECURSIVE SomeOrdering(_)
SomeOrdering(S) ==
    IF S = {}
    THEN <<>>
    ELSE LET x == CHOOSE y \in S : TRUE
         IN  <<x>> \o SomeOrdering(S \ {x})

\* the least id that no entity of `used` holds (Commands::spawn reserves the
\* entity id when it is called)
FreshId(used) == CHOOSE i \in 1..(Cardinality(used) + 1) :
                     /\ i \notin used
                     /\ \A j \in 1..(i - 1) : j \in used

QueuedIds(cmds, op) == {cmds[i].id : i \in {j \in DOMAIN cmds : cmds[j].op = op}}

QueuedDecalIds(cmds, parent) ==
    {cmds[i].id : i \in {j \in DOMAIN cmds :
                            cmds[j].op = "spawn_decal" /\ cmds[j].parent = parent}}

\* lib.rs 48-54: spray_decal queues the spawn of an ApplyingDecal entity
spray_decal(cmds, requests, volume) ==
    Append(cmds,
           [op |-> "spawn_applying",
            id |-> FreshId(DOMAIN requests \cup QueuedIds(cmds, "spawn_applying")),
            volume |-> volume])

\* after_apply_decal that counts a call that gave no mesh as well
after_apply_decal_counts_misses(w, requests, id, model, kind) ==
    LET count == w.decalable[model]
        attempt == [decal |-> id, volume |-> requests[id].volume, model |-> model,
                    count |-> count, offset |-> decal_offset(count), kind |-> kind]
    IN  IF kind = "Panic"
        THEN [w EXCEPT !.crashed = TRUE, !.attempts = Append(@, attempt)]
        ELSE IF kind = "Some"
        THEN [w EXCEPT
                !.commands =
                    Append(@, [op |-> "spawn_decal", parent |-> model,
                               id |-> FreshId(DOMAIN w.decals[model]
                                              \cup QueuedDecalIds(@, model)),
                               offset |-> decal_offset(count)]),
                !.decalable[model] = @ + 1,
                !.attempts = Append(@, attempt)]
        ELSE [w EXCEPT !.decalable[model] = @ + 1, !.attempts = Append(@, attempt)]

\* lib.rs 359-374, what follows the apply_decal call of one iteration of the
\* inner loop: `kind` is what the call came to ("Panic", "None" or "Some").
\* w = [decalable, decals, commands, attempts, passes, crashed] is what the
\* pass has changed so far.
after_apply_decal(w, requests, id, model, kind) ==
    LET count == w.decalable[model]
        attempt == [decal |-> id, volume |-> requests[id].volume, model |-> model,
                    count |-> count, offset |-> decal_offset(count), kind |-> kind]
    IN  IF kind = "Panic"
        THEN [w EXCEPT !.crashed = TRUE, !.attempts = Append(@, attempt)]
        ELSE IF kind = "Some"
        THEN [w EXCEPT
                !.commands =
                    Append(@, [op |-> "spawn_decal", parent |-> model,
                               id |-> FreshId(DOMAIN w.decals[model]
                                              \cup QueuedDecalIds(@, model)),
                               offset |-> decal_offset(count)]),
                !.decalable[model] = @ + 1,
                !.attempts = Append(@, attempt)]
        ELSE [w EXCEPT !.attempts = Append(@, attempt)]

\* decal_on_model with the budget test off by one (> for >=)
decal_on_model_off_by_one(w, requests, sc, id, model, overflow_checks) ==
    IF w.decalable[model] > DECAL_MAX_PER_ENTTIY
    THEN w
    ELSE after_apply_decal(w, requests, id, model,
                           ApplyDecalResult[sc[model].mesh, model, requests[id].volume,
                                            IF w.decalable[model] > DECAL_MAX_PER_ENTTIY
                                            THEN DECAL_MAX_PER_ENTTIY
                                            ELSE w.decalable[model],
                                            overflow_checks].kind)

\* lib.rs 352-375, one iteration of the inner loop: request `id` against
\* `model`
decal_on_model(w, requests, sc, id, model, overflow_checks) ==
    IF w.decalable[model] >= DECAL_MAX_PER_ENTTIY
    THEN w
    ELSE after_apply_decal(w, requests, id, model,
                           ApplyDecalResult[sc[model].mesh, model, requests[id].volume,
                                            w.decalable[model], overflow_checks].kind)

\* lib.rs 352-375: the inner loop over the models, from the j-th on
RECURSIVE decal_on_models(_, _, _, _, _, _, _)
decal_on_models(w, requests, sc, id, model_order, j, overflow_checks) ==
    IF j > Len(model_order) \/ w.crashed
    THEN w
    ELSE decal_on_models(decal_on_model(w, requests, sc, id, model_order[j],
                                        overflow_checks),
                         requests, sc, id, model_order, j + 1, overflow_checks)

\* lib.rs 377: the despawn of the request is queued after its inner loop,
\* which a panic does not get to
despawn_request(w, id) ==
    IF w.crashed
    THEN w
    ELSE [w EXCEPT !.commands = Append(@, [op |-> "despawn_applying", id |-> id])]

\* decal_on_requests that stops after the first request of the pass
decal_on_requests_first_only(w, requests, sc, decal_order, model_order, i, overflow_checks) ==
    IF i > Len(decal_order) \/ i > 1 \/ w.crashed
    THEN w
    ELSE despawn_request(
             decal_on_models([w EXCEPT !.passes[decal_order[i]] = @ + 1], requests, sc,
                             decal_order[i], model_order, 1, overflow_checks),
             decal_order[i])

\* lib.rs 351-378: the outer loop over the ApplyingDecal entities, from the
\* i-th on; each is despawned after its inner loop
RECURSIVE decal_on_requests(_, _, _, _, _, _, _)
decal_on_requests(w, requests, sc, decal_order, model_order, i, overflow_checks) ==
    IF i > Len(decal_order) \/ w.crashed
    THEN w
    ELSE decal_on_requests(
             despawn_request(
                 decal_on_models([w EXCEPT !.passes[decal_order[i]] = @ + 1], requests, sc,
                                 decal_order[i], model_order, 1, overflow_checks),
                 decal_order[i]),
             requests, sc, decal_order, model_order, i + 1, overflow_checks)

\* lib.rs 345-380: decal_system, with the orders in which the two queries
\* iterate; returns [decalable, decals, commands, attempts, passes, crashed]
decal_system(sc, counters, children, requests, cmds, decal_order, model_order, overflow_checks) ==
    decal_on_requests([decalable |-> counters, decals |-> children, commands |-> cmds,
                       attempts |-> <<>>,
                       passes |-> [id \in DOMAIN requests |-> requests[id].passes],
                       crashed |-> FALSE],
                      requests, sc, decal_order, model_order, 1, overflow_checks)

\* paint_thrower.rs 371: the entities the query of make_all_decalable yields,
\* With<Handle<Mesh>>, Without<Decal>, Without<Decalable>.  The entities with
\* a mesh are the models, which have no Decal, and the decals
UndecalableModels(counters) == ModelEntities \ DOMAIN counters

UndecalableDecals(children) ==
    {<<m, id>> \in ModelEntities \X (1..2 * DECAL_MAX_PER_ENTTIY) :
        id \in DOMAIN children[m]
        /\ ~children[m][id].decal /\ ~children[m][id].decalable}

\* paint_thrower.rs 368-375
make_all_decalable(cmds, counters, children) ==
    LET todo == SomeOrdering(UndecalableModels(counters))
        todo_decals == SomeOrdering(UndecalableDecals(children))
    IN  cmds
        \o [i \in DOMAIN todo |-> [op |-> "insert_decalable", entity |-> todo[i]]]
        \o [i \in DOMAIN todo_decals |->
               [op |-> "insert_decalable_on_decal",
                parent |-> todo_decals[i][1], id |-> todo_decals[i][2]]]

\* clear_decals that despawns the decals and leaves the counters alone
clear_decals_keeps_budgets(cmds, counters, children) ==
    LET live == {<<m, id>> \in ModelEntities \X (1..2 * DECAL_MAX_PER_ENTTIY) :
                    id \in DOMAIN children[m]}
        d == SomeOrdering(live)
    IN  cmds
        \o [i \in DOMAIN d |-> [op |-> "despawn_decal", parent |-> d[i][1], id |-> d[i][2]]]

\* paint_thrower.rs 377-392, when KeyC was just pressed
clear_decals(cmds, counters, children) ==
    LET live == {<<m, id>> \in ModelEntities \X (1..2 * DECAL_MAX_PER_ENTTIY) :
                    id \in DOMAIN children[m]}
        d == SomeOrdering(live)
        c == SomeOrdering(DOMAIN counters)
    IN  cmds
        \o [i \in DOMAIN d |-> [op |-> "despawn_decal", parent |-> d[i][1], id |-> d[i][2]]]
        \o [i \in DOMAIN c |-> [op |-> "insert_decalable", entity |-> c[i]]]

Restrict(f, S) == [x \in S |-> f[x]]

\* one queued command applied to the world w = [decalable, applying, decals]
apply_command(w, c) ==
    IF c.op = "spawn_applying"
    THEN [w EXCEPT !.applying =
                       [id \in DOMAIN @ \cup {c.id} |->
                           IF id = c.id THEN [volume |-> c.volume, passes |-> 0]
                           ELSE @[id]]]
    ELSE IF c.op = "despawn_applying"
    THEN [w EXCEPT !.applying = Restrict(@, DOMAIN @ \ {c.id})]
    ELSE IF c.op = "spawn_decal"
    THEN \* lib.rs 361-372: the bundle has Decal and no Decalable
         [w EXCEPT !.decals[c.parent] =
                       [id \in DOMAIN @ \cup {c.id} |->
                           IF id = c.id
                           THEN [offset |-> c.offset, decal |-> TRUE, decalable |-> FALSE]
                           ELSE @[id]]]
    ELSE IF c.op = "insert_decalable_on_decal"
    THEN [w EXCEPT !.decals[c.parent] =
                       [id \in DOMAIN @ |->
                           IF id = c.id THEN [@[id] EXCEPT !.decalable = TRUE] ELSE @[id]]]
    ELSE IF c.op = "despawn_decal"
    THEN [w EXCEPT !.decals[c.parent] = Restrict(@, DOMAIN @ \ {c.id})]
    ELSE \* insert_decalable: insert(Decalable::default()) adds or overwrites
         [w EXCEPT !.decalable =
                       [m \in DOMAIN @ \cup {c.entity} |->
                           IF m = c.entity THEN 0 ELSE @[m]]]

\* the queue applied in order, from the i-th command on
RECURSIVE apply_commands(_, _, _)
apply_commands(w, cmds, i) ==
    IF i > Len(cmds)
    THEN w
    ELSE apply_commands(apply_command(w, cmds[i]), cmds, i + 1)

\* the systems that queue commands, by schedule; "spray" stands for the
\* systems that call spray_decal
Systems == {"spray", "decal_system", "make_all_decalable", "clear_decals"}
UpdateSystems == {"decal_system", "make_all_decalable"}
NoCommands == [sys \in Systems |-> <<>>]

Init ==
    /\ scene \in Scenes
    /\ decalable = <<>>
    /\ applying = <<>>
    /\ decals = [m \in ModelEntities |-> <<>>]
    /\ commands = NoCommands
    /\ schedule = "Update"
    /\ ran = {}
    /\ attempts = <<>>
    /\ crashed = FALSE
    /\ pc = "world"
    /\ input = <<>>
    /\ output = <<>>

\* a system of the Update schedule calls spray_decal
SprayDecal(v) ==
    /\ ~crashed
    /\ schedule = "Update"
    /\ Cardinality(DOMAIN applying \cup QueuedIds(commands["spray"], "spawn_applying"))
           < MaxRequests
    /\ commands' = [commands EXCEPT !["spray"] = spray_decal(@, applying, v)]
    /\ UNCHANGED <<scene, decalable, applying, decals, schedule, ran, attempts, crashed,
                   run_vars>>

DecalSystem ==
    /\ ~crashed
    /\ schedule = "Update"
    /\ "decal_system" \notin ran
    /\ \E decal_order \in Orderings(DOMAIN applying),
          model_order \in Orderings(DOMAIN decalable),
          overflow_checks \in BOOLEAN :
          \E w \in {decal_system(scene, decalable, decals, applying,
                                  commands["decal_system"],
                                  decal_order, model_order, overflow_checks)} :
              /\ decalable' = w.decalable
              /\ attempts' = w.attempts
              /\ crashed' = w.crashed
              /\ applying' = [id \in DOMAIN applying |->
                                 [applying[id] EXCEPT !.passes = w.passes[id]]]
              /\ commands' = IF w.crashed
                             THEN commands
                             ELSE [commands EXCEPT !["decal_system"] = w.commands]
    /\ ran' = ran \cup {"decal_system"}
    /\ UNCHANGED <<scene, decals, schedule, run_vars>>

\* (a run that finds no entity to insert into changes nothing: it is a
\* stuttering step)
MakeAllDecalable ==
    /\ ~crashed
    /\ schedule = "Update"
    /\ "make_all_decalable" \notin ran
    /\ UndecalableModels(decalable) # {} \/ UndecalableDecals(decals) # {}
    /\ commands' = [commands EXCEPT
                       !["make_all_decalable"] = make_all_decalable(@, decalable, decals)]
    /\ ran' = ran \cup {"make_all_decalable"}
    /\ UNCHANGED <<scene, decalable, applying, decals, schedule, attempts, crashed,
                   run_vars>>

\* clear_decals in a frame in which KeyC was just pressed (in any other frame
\* it changes nothing: a stuttering step)
ClearDecals ==
    /\ ~crashed
    /\ schedule = "Last"
    /\ "clear_decals" \notin ran
    /\ commands' = [commands EXCEPT
                       !["clear_decals"] = clear_decals(@, decalable, decals)]
    /\ ran' = ran \cup {"clear_decals"}
    /\ UNCHANGED <<scene, decalable, applying, decals, schedule, attempts, crashed,
                   run_vars>>

\* the queues of the systems named by `order` applied one after the other
RECURSIVE apply_queues(_, _, _, _)
apply_queues(w, cmds, order, i) ==
    IF i > Len(order)
    THEN w
    ELSE apply_queues(apply_commands(w, cmds[order[i]], 1), cmds, order, i + 1)

\* the sync point at the end of a schedule: every system of the schedule has
\* run (make_all_decalable and clear_decals possibly without effect), and the
\* queues are applied, system by system, in some order
ApplyDeferred ==
    /\ ~crashed
    /\ \/ /\ schedule = "Update"
          /\ "decal_system" \in ran
          /\ \/ "make_all_decalable" \in ran
             \/ UndecalableModels(decalable) = {} /\ UndecalableDecals(decals) = {}
          /\ schedule' = "Last"
       \/ /\ schedule = "Last"
          /\ schedule' = "Update"
    /\ \E order \in Orderings({sys \in Systems : commands[sys] # <<>>}) :
          LET w == apply_queues([decalable |-> decalable, applying |-> applying,
                                 decals |-> decals], commands, order, 1)
          IN  /\ decalable' = w.decalable
              /\ applying' = w.applying
              /\ decals' = w.decals
    /\ commands' = NoCommands
    /\ ran' = {}
    /\ attempts' = <<>>
    /\ UNCHANGED <<scene, crashed, run_vars>>

Next ==
    \/ \E v \in VolumeNames : SprayDecal(v)
    \/ DecalSystem
    \/ MakeAllDecalable
    \/ ClearDecals
    \/ ApplyDeferred

Spec == Init /\ [][Next]_vars

(***************************************************************************)
(* Properties of the orchestration.                                        *)
(***************************************************************************)
\* the decals a model has: its Decal children and those decal_system has
\* queued the spawn of
DecalCount(children, cmds, m) ==
    Cardinality(DOMAIN children[m]) + Cardinality(QueuedDecalIds(cmds["decal_system"], m))

\* the step applies the commands of a clear_decals run
ClearApplied == schedule = "Last" /\ schedule' = "Update" /\ commands["clear_decals"] # <<>>

\* C1: every target's Decalable counter is at most DECAL_MAX_PER_ENTTIY (16),
\* and a target whose counter is 16 keeps the counter at 16 and gets no new
\* decal in every step other than the one that applies a clear.
C1_BudgetCap ==
    [][\A m \in DOMAIN decalable :
          /\ decalable[m] <= DECAL_MAX_PER_ENTTIY
          /\ m \in DOMAIN decalable' => decalable'[m] <= DECAL_MAX_PER_ENTTIY
          /\ decalable[m] = DECAL_MAX_PER_ENTTIY /\ ~ClearApplied
                => /\ m \in DOMAIN decalable'
                   /\ decalable'[m] = DECAL_MAX_PER_ENTTIY
                   /\ DecalCount(decals', commands', m) = DecalCount(decals, commands, m)]_vars

\* a pass has run a request whose volume cuts m1 while m1's counter was 16,
\* after the counter reached 16 in this same pass
C1_Witness ==
    /\ "decal_system" \in ran
    /\ "m1" \in DOMAIN decalable
    /\ decalable["m1"] = DECAL_MAX_PER_ENTTIY
    /\ \E i \in DOMAIN attempts :
          /\ attempts[i].model = "m1"
          /\ attempts[i].count = DECAL_MAX_PER_ENTTIY - 1
          /\ attempts[i].kind = "Some"
    /\ \E id \in DOMAIN applying :
          /\ applying[id].passes = 1
          /\ applying[id].volume = "small"
          /\ \A i \in DOMAIN attempts :
                ~(attempts[i].decal = id /\ attempts[i].model = "m1")

\* C2: once decal_system has run in a frame, every ApplyingDecal entity that
\* was there when it started has its despawn queued for the frame's sync
\* point, and no ApplyingDecal entity has been through more than one pass.
C2_RequestsDestroyedByPass ==
    /\ \A id \in DOMAIN applying : applying[id].passes <= 1
    /\ "decal_system" \in ran
          => \A id \in DOMAIN applying :
                id \in QueuedIds(commands["decal_system"], "despawn_applying")

\* C4: an apply_decal call on a mesh that lacks an attribute or has another
\* encoding does not crash the app: the request goes on to the other targets
\* and its despawn is queued.
C4_MalformedMeshSkipped ==
    \A i \in DOMAIN attempts :
        ~mesh_format_ok(MeshAssets[scene[attempts[i].model].mesh])
            => /\ ~crashed
               /\ attempts[i].decal \in QueuedIds(commands["decal_system"], "despawn_applying")

\* the world after clear_decals has run there and its commands were applied
Cleared(w) ==
    apply_commands(w, clear_decals(<<>>, w.decalable, w.decals), 1)

\* C6: clear_decals, run in the Last schedule of a frame of any reachable
\* world, leaves no Decal entity and every Decalable counter at 0, and
\* running it again leaves the same world.
C6_ClearIsIdempotent ==
    schedule = "Last" =>
        \A w1 \in {Cleared([decalable |-> decalable, applying |-> applying,
                             decals |-> decals])} :
            /\ \A m \in ModelEntities : DOMAIN w1.decals[m] = {}
            /\ DOMAIN w1.decalable = DOMAIN decalable
            /\ \A m \in DOMAIN w1.decalable : w1.decalable[m] = 0
            /\ w1.applying = applying
            /\ Cleared(w1) = w1

\* clear_decals has run in the Last schedule of a frame of a world with
\* decals on both models
C6_Witness ==
    /\ schedule = "Last"
    /\ "clear_decals" \in ran
    /\ \A m \in ModelEntities :
          /\ m \in DOMAIN decalable
          /\ decalable[m] > 0
          /\ DOMAIN decals[m] # {}
          /\ \E i \in DOMAIN commands["clear_decals"] :
                /\ commands["clear_decals"][i].op = "despawn_decal"
                /\ commands["clear_decals"][i].parent = m

\* a frame is about to start: nothing is queued and no system has run
PassStart ==
    /\ pc = "world"
    /\ ~crashed
    /\ schedule = "Update"
    /\ ran = {}
    /\ commands = NoCommands

\* what a pass over the pending requests comes to when its queries iterate in
\* the given orders: whether it panics and, if not, the (request, target)
\* pairs that get decal geometry and the counters it leaves
PassOutcome(decal_order, model_order, overflow_checks) ==
    CHOOSE outcome \in
        {IF w.crashed
         THEN [crashed |-> TRUE, pairs |-> {}, budgets |-> <<>>]
         ELSE [crashed |-> FALSE,
               pairs |-> {<<w.attempts[i].decal, w.attempts[i].model>> :
                             i \in {j \in DOMAIN w.attempts : w.attempts[j].kind = "Some"}},
               budgets |-> w.decalable] :
         w \in {decal_system(scene, decalable, decals, applying, <<>>,
                             decal_order, model_order, overflow_checks)}} : TRUE

\* every order of the pending requests comes to the same outcome
OrderIndependent ==
    \A model_order \in Orderings(DOMAIN decalable), overflow_checks \in BOOLEAN :
        Cardinality({PassOutcome(decal_order, model_order, overflow_checks) :
                        decal_order \in Orderings(DOMAIN applying)}) = 1

\* the pending requests whose volume yields geometry on model m at its
\* current counter
Hits(m) ==
    {id \in DOMAIN applying :
        ApplyDecalResult[scene[m].mesh, m, applying[id].volume, decalable[m], FALSE].kind
            = "Some"}

\* on model m the budget left covers every pending request that yields
\* geometry, and no pending request's result changes over the offsets the
\* pass can use
BudgetAndOffsetsAllow(m) ==
    \/ decalable[m] >= DECAL_MAX_PER_ENTTIY
    \/ /\ decalable[m] + Cardinality(Hits(m)) <= DECAL_MAX_PER_ENTTIY
       /\ \A id \in DOMAIN applying, overflow_checks \in BOOLEAN :
             \A count \in decalable[m]..(decalable[m] + Cardinality(DOMAIN applying) - 1) :
                 count < DECAL_MAX_PER_ENTTIY
                     => ApplyDecalResult[scene[m].mesh, m, applying[id].volume,
                                         count, overflow_checks]
                          = ApplyDecalResult[scene[m].mesh, m, applying[id].volume,
                                             decalable[m], overflow_checks]

\* C10 as stated: every order of processing the pending requests yields the
\* same (request, target) pairs with decal geometry and the same final
\* counters.
C10_OrderIndependent == PassStart => OrderIndependent

\* C10: when, on every target below its budget, the budget left covers the
\* pending requests that yield geometry on it and no pending request's
\* result changes over the offsets of the pass, every order of processing the
\* requests yields the same (request, target) pairs with decal geometry and
\* the same final counters (and panics if any order does).
C10_OrderIndependentWithinBudget ==
    PassStart /\ (\A m \in DOMAIN decalable : BudgetAndOffsetsAllow(m)) => OrderIndependent

\* a frame starts with two requests that both yield geometry on m1, within
\* its budget
C10_Witness ==
    /\ PassStart
    /\ DOMAIN decalable = ModelEntities
    /\ \A m \in ModelEntities : BudgetAndOffsetsAllow(m)
    /\ decalable["m1"] < DECAL_MAX_PER_ENTTIY
    /\ Cardinality(Hits("m1")) >= 2


\* the attempts before the i-th of the pass that gave `model` a decal
EarlierHits(i, model) ==
    {j \in 1..(i - 1) : attempts[j].model = model /\ attempts[j].kind = "Some"}

\* C11: every apply_decal call of a pass gets the offset DECAL_EPSILON x (the
\* target's counter + 1), the counter being the decals the target had when
\* the pass started plus those the pass gave it before; so the k-th decal of
\* a target since the last clear has the offset k x DECAL_EPSILON, and the
\* offsets of the decals of one target strictly increase.
C11_OffsetFollowsBudget ==
    /\ \A i \in DOMAIN attempts :
          /\ attempts[i].count
               = Cardinality(DOMAIN decals[attempts[i].model])
                   + Cardinality(EarlierHits(i, attempts[i].model))
          /\ attempts[i].offset = RMul(R(attempts[i].count + 1), DECAL_EPSILON)
    /\ pc = "world" =>
          \A m \in ModelEntities :
              /\ \A id \in DOMAIN decals[m] :
                    decals[m][id].offset = RMul(R(id), DECAL_EPSILON)
              /\ \A i \in DOMAIN commands["decal_system"] :
                    commands["decal_system"][i].op = "spawn_decal"
                        => commands["decal_system"][i].offset
                             = RMul(R(commands["decal_system"][i].id), DECAL_EPSILON)
              /\ \A id1, id2 \in DOMAIN decals[m] :
                    id1 < id2 => RLt(decals[m][id1].offset, decals[m][id2].offset)

\* a pass has given m1, which had decals already, two more
C11_Witness ==
    /\ "decal_system" \in ran
    /\ Cardinality(DOMAIN decals["m1"]) >= 2
    /\ \E i, j \in DOMAIN attempts :
          /\ i < j
          /\ attempts[i].model = "m1" /\ attempts[i].kind = "Some"
          /\ attempts[j].model = "m1" /\ attempts[j].kind = "Some"


\* no pass is under way: decal_system has not run in this frame, or its
\* commands were applied at the sync point of Update
BetweenPasses == "decal_system" \notin ran

\* the apply_decal calls of the pass that gave `model` a decal
HitsOn(model) ==
    {i \in DOMAIN attempts : attempts[i].model = model /\ attempts[i].kind = "Some"}

\* C13: between passes every target's Decalable counter is the number of
\* Decal entities parented under it, and an entity without Decalable has no
\* decal; a pass that has run raised each counter by the number of decal
\* children it queued the spawn of, one for each call that gave a mesh; no
\* Decal entity carries Decalable; and the commands of clear_decals leave
\* every counter at 0 and no decal.
C13_CounterMatchesDecals ==
    /\ BetweenPasses =>
          \A m \in ModelEntities :
              IF m \in DOMAIN decalable
              THEN decalable[m] = Cardinality(DOMAIN decals[m])
              ELSE DOMAIN decals[m] = {}
    /\ "decal_system" \in ran /\ ~crashed =>
          \A m \in DOMAIN decalable :
              /\ decalable[m] = DecalCount(decals, commands, m)
              /\ Cardinality(QueuedDecalIds(commands["decal_system"], m))
                   = Cardinality(HitsOn(m))
    /\ \A m \in ModelEntities, id \in 1..2 * DECAL_MAX_PER_ENTTIY :
          id \in DOMAIN decals[m] => decals[m][id].decal /\ ~decals[m][id].decalable
    /\ schedule = "Last" /\ "clear_decals" \in ran =>
          \A w \in {apply_commands([decalable |-> decalable, applying |-> applying,
                                    decals |-> decals], commands["clear_decals"], 1)} :
              /\ \A m \in DOMAIN w.decalable : w.decalable[m] = 0
              /\ \A m \in ModelEntities : DOMAIN w.decals[m] = {}

\* a frame's pass is over and has left the two targets with different
\* numbers of decals, m1 with several
C13_Witness ==
    /\ schedule = "Last"
    /\ ran = {}
    /\ DOMAIN decalable = ModelEntities
    /\ decalable["m1"] >= 2
    /\ decalable["m2"] >= 1
    /\ decalable["m1"] # decalable["m2"]
    /\ Cardinality(DOMAIN decals["m1"]) = decalable["m1"]
    /\ Cardinality(DOMAIN decals["m2"]) = decalable["m2"]

(***************************************************************************)
(* The clipper on its own: slice and the per-triangle pipeline of          *)
(* apply_decal applied to triangles given in projector-local space.        *)
(***************************************************************************)
\* Bound: how many of the points of PointList the triangles are drawn from
\* (every triangle with three of them as corners and a non-zero area)
MaxPoints == 7

PointList ==
    <<V3(R(0), R(0), R(0)),            \* inside
      V3(R(1), R(0), R(0)),            \* on the +X face
      V3(R(0), R(-1), Q(1, 2)),        \* on the -Y face
      V3(R(2), R(0), R(0)),            \* beyond +X
      V3(R(3), R(2), R(0)),            \* beyond +X and +Y
      V3(R(-2), R(-2), Q(1, 2)),       \* beyond -X and -Y
      V3(Q(1, 2), Q(1, 2), R(2)),      \* beyond +Z
      V3(R(0), R(2), R(0)),            \* beyond +Y
      V3(Q(-1, 2), R(0), R(-3))>>      \* beyond -Z

Points == {PointList[i] : i \in 1..MaxPoints}

\* the three vertex normals: facing the projector, facing away, mixed, sideways
NormalChoices ==
    {<<Vec3_Z, Vec3_Z, Vec3_Z>>, <<Vec3_NEG_Z, Vec3_NEG_Z, Vec3_NEG_Z>>,
     <<Vec3_Z, Vec3_NEG_Z, Vec3_NEG_Z>>, <<Vec3_X, Vec3_X, Vec3_X>>}

NoOutput == [axis |-> 0, ret |-> FALSE, step |-> "", triangles |-> <<>>]

IdleWorld ==
    /\ scene = <<>>
    /\ decalable = <<>>
    /\ applying = <<>>
    /\ decals = <<>>
    /\ commands = <<>>
    /\ schedule = "Update"
    /\ ran = {}
    /\ attempts = <<>>
    /\ crashed = FALSE

InitClip ==
    /\ IdleWorld
    /\ pc = "start"
    /\ input \in [pA : Points, pB : Points, pC : Points, n : NormalChoices]
    /\ VCross(VSub(input.pB, input.pA), VSub(input.pC, input.pA)) # Vec3_ZERO
    /\ output = NoOutput

InputTriangle ==
    Triangle(Vertex(input.pA, input.n[1], Vec2_ZERO),
             Vertex(input.pB, input.n[2], Vec2_ZERO),
             Vertex(input.pC, input.n[3], Vec2_ZERO))

\* slice(&mut triangle, axis, &mut output_triangles) on an empty output vector
Slice(i) ==
    /\ pc = "start"
    /\ LET r == slice(InputTriangle, axii[i], <<>>)
       IN  output' = [axis |-> i, ret |-> r.ret, step |-> "", triangles |-> r.triangles]
    /\ pc' = "slice"
    /\ UNCHANGED <<input, world_vars>>

\* one pass of the loop body of apply_decal over the triangle
ClipTriangle ==
    /\ pc = "start"
    /\ LET r == clip_triangle(input.pA, input.pB, input.pC,
                              input.n[1], input.n[2], input.n[3])
       IN  output' = [axis |-> 0, ret |-> FALSE, step |-> r.step, triangles |-> r.triangles]
    /\ pc' = "clip"
    /\ UNCHANGED <<input, world_vars>>

NextClip ==
    \/ \E i \in DOMAIN axii : Slice(i)
    \/ ClipTriangle

SpecClip == InitClip /\ [][NextClip]_vars

(***************************************************************************)
(* Properties of the clipper (checked under SpecClip).                     *)
(***************************************************************************)
PlaneDot(i, p) == VDot(p, axii[i])
Beyond(i, p) == RGt(PlaneDot(i, p), R(1))
Within(i, p) == RLt(PlaneDot(i, p), R(1))
OnPlane(i, p) == PlaneDot(i, p) = R(1)

\* p lies on the line through u and v
OnLine(p, u, v) == VCross(VSub(p, u), VSub(v, u)) = Vec3_ZERO

\* twice the vector area of the triangle (u, v, w)
Area2(u, v, w) == VCross(VSub(v, u), VSub(w, u))

TrianglePoints(t) == {t.a.position, t.b.position, t.c.position}

\* the input triangle's vertices, rotated so that the k-th comes first
Rotated(k) ==
    LET t == InputTriangle
    IN  IF k = 1 THEN <<t.a, t.b, t.c>>
        ELSE IF k = 2 THEN <<t.b, t.c, t.a>>
        ELSE <<t.c, t.a, t.b>>

\* exactly the k-th vertex is beyond plane i, the other two strictly within
OneBeyond(i, k) ==
    /\ Beyond(i, Rotated(k)[1].position)
    /\ Within(i, Rotated(k)[2].position)
    /\ Within(i, Rotated(k)[3].position)

\* exactly the k-th vertex is strictly within plane i, the other two beyond
TwoBeyond(i, k) ==
    /\ Within(i, Rotated(k)[1].position)
    /\ Beyond(i, Rotated(k)[2].position)
    /\ Beyond(i, Rotated(k)[3].position)

\* C3 (as claimed): every vertex of every triangle the clipping pipeline
\* outputs lies in the cube |x| <= 1, |y| <= 1, |z| <= 1, also for input
\* triangles with a vertex exactly on a face plane.
C3_Containment ==
    pc = "clip" =>
        \A j \in DOMAIN output.triangles :
            \A p \in TrianglePoints(output.triangles[j]) : is_inside_unit_cube(p)

\* C7 (as claimed): slicing a triangle with exactly one vertex beyond the
\* plane and two strictly within yields exactly one triangle, made of an
\* inside vertex and two new vertices on the plane.
C7_OneBeyondYieldsOneTriangle ==
    pc = "slice" =>
        \A k \in 1..3 :
            OneBeyond(output.axis, k) =>
                /\ Len(output.triangles) = 1
                /\ \E v \in {Rotated(k)[2], Rotated(k)[3]} :
                       /\ output.triangles[1].a = v
                       /\ OnPlane(output.axis, output.triangles[1].b.position)
                       /\ OnPlane(output.axis, output.triangles[1].c.position)

\* C7 (amended): slicing a triangle with exactly one vertex o beyond the plane
\* and the two others i1, i2 (in winding order after o) strictly within
\* returns true and yields exactly two triangles, (i1, i2, n2) and
\* (i1, n2, n1), where n1 and n2 are new vertices lying exactly on the plane,
\* n1 on the edge o-i1 and n2 on the edge o-i2.
C7_OneBeyondYieldsQuad ==
    pc = "slice" =>
        \A k \in 1..3 :
            OneBeyond(output.axis, k) =>
                LET o == Rotated(k)[1]
                    i1 == Rotated(k)[2]
                    i2 == Rotated(k)[3]
                    ts == output.triangles
                IN  /\ output.ret
                    /\ Len(ts) = 2
                    /\ ts[1].a = i1 /\ ts[1].b = i2
                    /\ ts[2].a = i1 /\ ts[2].b = ts[1].c
                    /\ OnPlane(output.axis, ts[2].c.position)
                    /\ OnLine(ts[2].c.position, o.position, i1.position)
                    /\ OnPlane(output.axis, ts[1].c.position)
                    /\ OnLine(ts[1].c.position, o.position, i2.position)

\* C7 witness: a slice of a triangle with one vertex beyond the plane was made
C7_Witness ==
    /\ pc = "slice"
    /\ \E k \in 1..3 : OneBeyond(output.axis, k)
    /\ Len(output.triangles) = 2

\* C8 (as claimed): slicing a triangle with exactly two vertices beyond the
\* plane and one strictly within yields exactly two triangles.
C8_TwoBeyondYieldsTwoTriangles ==
    pc = "slice" =>
        \A k \in 1..3 : TwoBeyond(output.axis, k) => Len(output.triangles) = 2

\* C8 (amended): slicing a triangle with exactly two vertices o1, o2 beyond
\* the plane and one vertex v strictly within returns true and yields exactly
\* one triangle (v, n1, n2), with n1 exactly on the plane on the edge v-o1 and
\* n2 exactly on the plane on the edge v-o2; it is the retained region: its
\* area plus the area of the cut-away quad (n1, o1, o2, n2) is the area of
\* the input triangle.
C8_TwoBeyondYieldsWedge ==
    pc = "slice" =>
        \A k \in 1..3 :
            TwoBeyond(output.axis, k) =>
                LET v == Rotated(k)[1]
                    o1 == Rotated(k)[2]
                    o2 == Rotated(k)[3]
                    ts == output.triangles
                IN  /\ output.ret
                    /\ Len(ts) = 1
                    /\ ts[1].a = v
                    /\ OnPlane(output.axis, ts[1].b.position)
                    /\ OnLine(ts[1].b.position, v.position, o1.position)
                    /\ OnPlane(output.axis, ts[1].c.position)
                    /\ OnLine(ts[1].c.position, v.position, o2.position)
                    /\ VAdd(Area2(ts[1].a.position, ts[1].b.position, ts[1].c.position),
                            VAdd(Area2(ts[1].b.position, o1.position, o2.position),
                                 Area2(ts[1].b.position, o2.position, ts[1].c.position)))
                         = Area2(v.position, o1.position, o2.position)

\* C8 witness: a slice of a triangle with two vertices beyond the plane was made
C8_Witness ==
    /\ pc = "slice"
    /\ \E k \in 1..3 : TwoBeyond(output.axis, k)
    /\ Len(output.triangles) = 1
\* the signs (-1, 0, 1) of the components of a vector
Signs(v) == [i \in DOMAIN v |-> IF v[i][1] > 0 THEN 1 ELSE IF v[i][1] < 0 THEN -1 ELSE 0]

\* the triangle t has the orientation of the input triangle: the two are in
\* one plane, so their vector areas are parallel, and they point the same
\* way (neither is zero) when their components have the same signs
SameOrientation(t) ==
    /\ Area2(t.a.position, t.b.position, t.c.position) # Vec3_ZERO
    /\ VCross(Area2(t.a.position, t.b.position, t.c.position),
              Area2(input.pA, input.pB, input.pC)) = Vec3_ZERO
    /\ Signs(Area2(t.a.position, t.b.position, t.c.position))
         = Signs(Area2(input.pA, input.pB, input.pC))

\* C12: every triangle slice pushes, in each of its branches, and every
\* triangle the six planes in turn leave of a source triangle, has the
\* orientation of the triangle it was cut from.
C12_WindingPreserved ==
    pc \in {"slice", "clip"} =>
        \A j \in DOMAIN output.triangles : SameOrientation(output.triangles[j])

\* slice has cut a triangle whose second vertex alone is within the plane
\* (the branch new_triangle(b, c, a, ..))
C12_Witness ==
    /\ pc = "slice"
    /\ output.ret
    /\ TwoBeyond(output.axis, 2)
    /\ Len(output.triangles) = 1
    /\ SameOrientation(output.triangles[1])


SummedNormalZ == RAdd(RAdd(input.n[1][3], input.n[2][3]), input.n[3][3])

AllInside ==
    /\ is_inside_unit_cube(input.pA)
    /\ is_inside_unit_cube(input.pB)
    /\ is_inside_unit_cube(input.pC)

\* C9: with backface rejection on, a triangle whose three projector-local
\* normals sum to a negative Z yields no output triangle and is not sliced,
\* also when its three vertices are inside the cube; a triangle whose summed
\* normal has Z >= 0 is not discarded by the backface step (inside the cube
\* it comes out unchanged).
C9_BackfaceRejection ==
    pc = "clip" =>
        /\ RLt(SummedNormalZ, R(0)) =>
               /\ output.triangles = <<>>
               /\ output.step \in {"removed", "backface"}
        /\ RGe(SummedNormalZ, R(0)) =>
               /\ output.step # "backface"
               /\ AllInside => output.triangles = <<InputTriangle>>

\* C9 witness: a triangle inside the cube was discarded as a backface
C9_Witness ==
    /\ pc = "clip"
    /\ AllInside
    /\ RLt(SummedNormalZ, R(0))
    /\ output.step = "backface"

(***************************************************************************)
(* The mesh builder on its own: lib.rs 298-341 applied to a list of        *)
(* new_triangles of a given length, under either build profile.            *)
(***************************************************************************)
\* Bound: the small triangle counts tried, besides the counts around the
\* u16 limit
MaxSmallTris == 60

\* 21845 triangles have 65535 vertices, the most whose indices 0..65534 are
\* written without `index` passing 65535; 21846 triangles have 65538
TriangleCounts == (0..MaxSmallTris) \cup {(U16_MODULUS \div 3) + k : k \in 0..1}

UnitTriangle ==
    Triangle(Vertex(V3(R(0), R(0), R(0)), Vec3_Z, Vec2_ZERO),
             Vertex(V3(R(1), R(0), R(0)), Vec3_Z, Vec2_ZERO),
             Vertex(V3(R(0), R(1), R(0)), Vec3_Z, Vec2_ZERO))

InitBuild ==
    /\ IdleWorld
    /\ pc = "start"
    /\ input \in [n_triangles : TriangleCounts, overflow_checks : BOOLEAN]
    /\ output = [kind |-> ""]

\* What is kept of a built mesh: its sizes, how many different values its
\* index list holds, and the indices of its last triangle
MeshSummary(r) ==
    IF r.kind # "Some"
    THEN [kind |-> r.kind]
    ELSE [kind |-> r.kind,
          n_positions |-> Len(r.positions),
          n_indices |-> Len(r.indices),
          n_distinct |-> Cardinality({r.indices[i] : i \in DOMAIN r.indices}),
          last |-> SubSeq(r.indices, Len(r.indices) - 2, Len(r.indices))]

BuildMesh ==
    /\ pc = "start"
    /\ output' = MeshSummary(build_mesh([i \in 1..input.n_triangles |-> UnitTriangle],
                                        input.overflow_checks))
    /\ pc' = "build"
    /\ UNCHANGED <<input, world_vars>>

NextBuild == BuildMesh

SpecBuild == InitBuild /\ [][NextBuild]_vars

\* C5 (as claimed): when the clipped triangles need more vertices than a
\* 16-bit index can address, no mesh is produced; every index list that is
\* produced is exactly 0, 1, ..., n-1.
C5_NoWrappedIndices ==
    pc = "build" =>
        /\ 3 * input.n_triangles > U16_MODULUS => output.kind # "Some"
        /\ output.kind = "Some" =>
               /\ output.n_indices = output.n_positions
               /\ output.n_distinct = output.n_indices
               /\ output.last = <<output.n_indices - 3, output.n_indices - 2,
                                  output.n_indices - 1>>

====
